---- MODULE Spec2Model ----
(***************************************************************************)
(* Model of the code-quality analyzer (src/src/analyzer.py): the scorer    *)
(* _calculate_score, the per-file pipeline analyze_file, the batch walk    *)
(* analyze_directory and the report writer generate_report; and of         *)
(* ReportGenerator.generate_recommendations (src/src/report_generator.py). *)
(*                                                                         *)
(* Real numbers are fixed-point integers: the real r is the integer        *)
(* r * Scale, i.e. a count of 1e-5 units.  Counts (pep8_errors,            *)
(* pep8_warnings, max_complexity, lines, entities) are plain integers.     *)
(***************************************************************************)
EXTENDS Integers, Sequences, FiniteSets, TLC

VARIABLES
    \* ---- scorer called on its own (SpecScore) ----
    metrics,          \* the raw-metrics dict handed to _calculate_score
    score_out,        \* <<>> before the call, <<s>> after it returned s
    \* ---- several analyzers calling the scorer (SpecPure) ----
    analyzers,        \* analyzer instance -> its attributes (metrics_weights)
    calls,            \* log of the calls made: [self, input, output]
    \* ---- one call of analyze_file, statement by statement (Spec) ----
    af,               \* the activation of analyze_file:
                      \*   pc        the statement it is at
                      \*   filepath  its argument, a path as its components
                      \*   code      the local `code`, a sequence of characters
                      \*   tree      the local `tree`, the nodes ast.walk yields
                      \*   frame     the other locals, and those of _run_pep8_check
                      \*   ret       <<>>, or <<r>> once it returned the record r
                      \*   via       the return statement that returned
                      \*   exc       "" or the exception that left it
                      \*   msg       "" or the tag of the error message printed
                      \*   events    the external calls made so far, in order
    \* ---- analyze_directory (SpecDir) ----
    walk,             \* the activation of analyze_directory:
                      \*   pc       "loop", "done" (returned) or "raised"
                      \*   files    the files os.walk yields, in its order
                      \*   i        the file the loops are at
                      \*   results  the local `results`
                      \*   exc      "" or the exception that left it
    \* ---- the consumers of the records (SpecReport, SpecAdvice) ----
    report,           \* the activation of generate_report:
                      \*   pc           "idle", "json", "csv", "summary", "returned"
                      \*   results      its argument, a list of dicts
                      \*   output_path  its argument, a sequence of characters
                      \*   files        the files written: [path, content]
                      \*   log          the messages printed, by tag
                      \*   ret          <<>>, or <<p>> once it returned the path p
    advice            \* the last call of generate_recommendations:
                      \*   pc               "idle" or "returned"
                      \*   metrics          its argument, a dict
                      \*   recommendations  the list it returned, by tag

Scale == 10 ^ 5

\* the real i + f/Scale
R(i, f) == i * Scale + f

Min(a, b) == IF a <= b THEN a ELSE b
Max(a, b) == IF a >= b THEN a ELSE b

\* Python's round(x, 2) on a fixed-point real: nearest hundredth, ties to even
Round2(x) ==
    LET h == Scale \div 100
        q == x \div h
        r == x % h
    IN  IF 2 * r > h \/ (2 * r = h /\ q % 2 = 1) THEN (q + 1) * h ELSE q * h

(***************************************************************************)
(* CodeAnalyzer._calculate_score                                           *)
(***************************************************************************)

\* a penalty that is dropped, instead of capped, once it passes the cap
ErrorPenaltyDroppedAboveCap(m) ==
    IF m.pep8_errors * 2 * Scale <= 30 * Scale THEN m.pep8_errors * 2 * Scale ELSE 0

\* a penalty of two points per error without the cap of 30
ErrorPenaltyUncapped(m) == m.pep8_errors * 2 * Scale

\* the pep8_errors penalty, line 219
ErrorPenalty(m) == Min(m.pep8_errors * 2 * Scale, 30 * Scale)

\* half a point per warning without the cap of 10
WarningPenaltyUncapped(m) == (m.pep8_warnings * Scale) \div 2

\* the pep8_warnings penalty, line 220 (warnings * 0.5)
WarningPenalty(m) == Min((m.pep8_warnings * Scale) \div 2, 10 * Scale)

\* lines 223-226
ComplexityPenalty(m) ==
    (IF m.max_complexity > 10
        THEN Min((m.max_complexity - 10) * 2 * Scale, 20 * Scale) ELSE 0)
    + (IF m.avg_complexity > 5 * Scale
        THEN Min((m.avg_complexity - 5 * Scale) * 1, 10 * Scale) ELSE 0)

\* lines 229-232
MaintainabilityAdjust(m) ==
    IF m.maintainability > 80 * Scale THEN 5 * Scale
    ELSE IF m.maintainability < 40 * Scale THEN -(10 * Scale)
    ELSE 0

\* the bonus with the sign of a penalty
DocstringBonusSubtracted(m) == -Min((m.docstring_coverage * 15) \div 100, 15 * Scale)

\* the bonus without its cap
DocstringBonusUncapped(m) == (m.docstring_coverage * 15) \div 100

\* line 235 (docstring_coverage * 0.15)
DocstringBonus(m) == Min((m.docstring_coverage * 15) \div 100, 15 * Scale)

\* lines 238-241
CommentAdjust(m) ==
    IF 5 * Scale <= m.comment_density /\ m.comment_density <= 20 * Scale
        THEN 5 * Scale
    ELSE IF m.comment_density < 2 * Scale THEN -(5 * Scale)
    ELSE 0

\* the local `score` just before the return statement (lines 216-241)
ScoreBeforeClamp(m) ==
    100 * Scale - ErrorPenalty(m) - WarningPenalty(m) - ComplexityPenalty(m)
        + MaintainabilityAdjust(m) + DocstringBonus(m) + CommentAdjust(m)

\* the return statement, line 243
ClampNoUpper(s) == Max(0, s)
Clamp(s) == Max(0, Min(100 * Scale, s))

\* _calculate_score(self, metrics): the value returned
_calculate_score(self, m) == Clamp(ScoreBeforeClamp(m))

\* a scorer that renormalises the weights of its analyzer in place
_calculate_score_self_renormalising(self, m) ==
    [self EXCEPT !.metrics_weights.pep8 = 100 - self.metrics_weights.pep8]

\* the analyzer's attributes after a call of _calculate_score: the method
\* assigns nothing on self
_calculate_score_self(self, m) == self

\* CodeAnalyzer.__init__: metrics_weights, in hundredths
__init__ ==
    [metrics_weights |->
        [pep8 |-> 25, complexity |-> 25, maintainability |-> 20,
         docstrings |-> 15, comments |-> 15]]

(***************************************************************************)
(* Strings are sequences of one-character strings                          *)
(***************************************************************************)
SeqsUpTo(S, n) == UNION {[1..k -> S] : k \in 0..n}

Whitespace == {" ", "\n"}
Digits == {"0", "1", "2", "3", "4", "5", "6", "7", "8", "9"}

RECURSIVE split(_, _)
\* str.split(sep) with a one-character separator
split(s, sep) ==
    IF \A i \in 1..Len(s) : s[i] # sep THEN <<s>>
    ELSE LET i == CHOOSE k \in 1..Len(s) :
                    s[k] = sep /\ \A j \in 1..(k - 1) : s[j] # sep
         IN  <<SubSeq(s, 1, i - 1)>> \o split(SubSeq(s, i + 1, Len(s)), sep)

RECURSIVE lstrip(_)
lstrip(s) == IF s # <<>> /\ s[1] \in Whitespace THEN lstrip(Tail(s)) ELSE s

RECURSIVE rstrip(_)
rstrip(s) ==
    IF s # <<>> /\ s[Len(s)] \in Whitespace THEN rstrip(SubSeq(s, 1, Len(s) - 1)) ELSE s

\* str.strip()
strip(s) == rstrip(lstrip(s))

\* str.startswith(prefix), str.endswith(suffix)
startswith(s, prefix) ==
    Len(s) >= Len(prefix) /\ SubSeq(s, 1, Len(prefix)) = prefix
endswith(s, suffix) ==
    Len(s) >= Len(suffix) /\ SubSeq(s, Len(s) - Len(suffix) + 1, Len(s)) = suffix

\* str.isdigit() on ASCII text
isdigit(s) == s # <<>> /\ \A i \in 1..Len(s) : s[i] \in Digits

DigitValue(c) ==
    CASE c = "0" -> 0 [] c = "1" -> 1 [] c = "2" -> 2 [] c = "3" -> 3 [] c = "4" -> 4
      [] c = "5" -> 5 [] c = "6" -> 6 [] c = "7" -> 7 [] c = "8" -> 8 [] c = "9" -> 9

RECURSIVE int(_)
\* int(s) for a string of digits
int(s) == IF s = <<>> THEN 0
          ELSE 10 * int(SubSeq(s, 1, Len(s) - 1)) + DigitValue(s[Len(s)])

\* os.path.basename of a path given as its components
basename(path) == path[Len(path)]

(***************************************************************************)
(* CodeMetrics and the helpers of analyze_file                             *)
(***************************************************************************)

\* the record the dataclass constructor builds
CodeMetrics(filename, loc, nf, nc, avg, mx, mi, errs, warns, doc, dens, score) ==
    [filename |-> filename, lines_of_code |-> loc, num_functions |-> nf,
     num_classes |-> nc, avg_complexity |-> avg, max_complexity |-> mx,
     maintainability_index |-> mi, pep8_errors |-> errs, pep8_warnings |-> warns,
     docstring_coverage |-> doc, comment_density |-> dens, score |-> score]

\* an error record that keeps the sentinel but scores like a success record
_create_error_metrics_scored(filename) ==
    CodeMetrics(basename(filename), 0, 0, 0, 0, 0, 0, 100, 0, 0, 0, 55 * Scale)

\* _create_error_metrics(filename, error_msg): the record returned
_create_error_metrics(filename) ==
    CodeMetrics(basename(filename), 0, 0, 0, 0, 0, 0, 100, 0, 0, 0, 0)

\* a node of the tree: its class and what ast.get_docstring gives for it,
\* <<>> for None and <<d>> for the string d
IsEntity(node) == node.type \in {"FunctionDef", "ClassDef"}

\* len([n for n in ast.walk(tree) if isinstance(n, cls)])
CountNodes(t, cls) == Cardinality({i \in 1..Len(t) : t[i].type = cls})

\* `docstring and len(docstring.strip()) > 0`
HasDocstring(node) ==
    /\ node.doc # <<>>
    /\ node.doc[1] # <<>>
    /\ Len(strip(node.doc[1])) > 0

\* a coverage that is 0, like the comment density, when there is nothing to count
_calculate_docstring_coverage_zero_when_empty(t, num_funcs, num_classes) ==
    LET total_entities == num_funcs + num_classes
        entities_with_doc ==
            Cardinality({i \in 1..Len(t) : IsEntity(t[i]) /\ HasDocstring(t[i])})
    IN  IF total_entities = 0 THEN 0
        ELSE (entities_with_doc * 100 * Scale) \div total_entities

\* _calculate_docstring_coverage(tree, num_funcs, num_classes)
_calculate_docstring_coverage(t, num_funcs, num_classes) ==
    LET total_entities == num_funcs + num_classes
        entities_with_doc ==
            Cardinality({i \in 1..Len(t) : IsEntity(t[i]) /\ HasDocstring(t[i])})
    IN  IF total_entities = 0 THEN 100 * Scale
        ELSE (entities_with_doc * 100 * Scale) \div total_entities

\* blank lines counted with the comments
CommentLinesAndBlank(lines) ==
    {i \in 1..Len(lines) :
        strip(lines[i]) = <<>> \/ startswith(strip(lines[i]), <<"#">>)}

\* the lines that count as comments
CommentLines(lines) ==
    {i \in 1..Len(lines) : startswith(strip(lines[i]), <<"#">>)}

\* a density that counts the "#" characters of the text, not its lines
_calculate_comment_density_per_character(c) ==
    LET lines == split(c, "\n")
        total_lines == Len(lines)
    IN  IF total_lines = 0 THEN 0
        ELSE (Cardinality({i \in 1..Len(c) : c[i] = "#"}) * 100 * Scale)
                \div total_lines

\* _calculate_comment_density(code)
_calculate_comment_density(c) ==
    LET lines == split(c, "\n")
        total_lines == Len(lines)
    IN  IF total_lines = 0 THEN 0
        ELSE (Cardinality(CommentLines(lines)) * 100 * Scale) \div total_lines

RECURSIVE sum(_)
sum(xs) == IF xs = <<>> THEN 0 ELSE xs[1] + sum(Tail(xs))

max(xs) == CHOOSE m \in {xs[i] : i \in 1..Len(xs)} : \A i \in 1..Len(xs) : xs[i] <= m

\* the total of the per-unit complexities in the place of their average
AvgComplexityUndivided(complexities) ==
    IF complexities # <<>> THEN sum(complexities) * Scale ELSE 0

\* lines 76-79: the average and the maximum of the per-unit complexities
AvgComplexity(complexities) ==
    IF complexities # <<>>
        THEN (sum(complexities) * Scale) \div Len(complexities) ELSE 0
MaxComplexity(complexities) ==
    IF complexities # <<>> THEN max(complexities) ELSE 0

\* lines 160-161 and 171-172: the count read from a checker's stdout
CountFromStdout(stdout, default) ==
    IF isdigit(strip(stdout)) THEN int(strip(stdout)) ELSE default

\* the dict with two of its values exchanged
ScoreInputSwapped(f) ==
    [pep8_errors |-> f.pep8_errors, pep8_warnings |-> f.pep8_warnings,
     avg_complexity |-> f.avg_complexity, max_complexity |-> f.max_complexity,
     maintainability |-> f.mi_score, docstring_coverage |-> f.comment_density,
     comment_density |-> f.docstring_coverage]

\* lines 106-116: the dict handed to the scorer
ScoreInput(f) ==
    [pep8_errors |-> f.pep8_errors, pep8_warnings |-> f.pep8_warnings,
     avg_complexity |-> f.avg_complexity, max_complexity |-> f.max_complexity,
     maintainability |-> f.mi_score, docstring_coverage |-> f.docstring_coverage,
     comment_density |-> f.comment_density]

\* lines 118-131: the record of a successful analysis
SuccessRecord(filepath, f) ==
    CodeMetrics(basename(filepath), f.loc, f.num_funcs, f.num_classes,
                Round2(f.avg_complexity), f.max_complexity, Round2(f.mi_score),
                f.pep8_errors, f.pep8_warnings, Round2(f.docstring_coverage),
                Round2(f.comment_density), Round2(f.score))

(***************************************************************************)
(* analyze_file, statement by statement.  Each step takes the activation   *)
(* and the outcome `o` of the external call the statement makes.           *)
(***************************************************************************)
MaxCodeLen == 2     \* longest source text
MaxNodes == 2       \* most function and class nodes in a tree
MaxUnits == 2       \* most units cc_visit reports

Chars == {"\n", "#", " ", "x"}      \* "x" stands for any other character
Codes == SeqsUpTo(Chars, MaxCodeLen)

NodeKinds ==
    {[type |-> "FunctionDef", doc |-> <<<<"d">>>>],
     [type |-> "FunctionDef", doc |-> <<>>],
     [type |-> "ClassDef", doc |-> <<<<"d">>>>],
     [type |-> "ClassDef", doc |-> <<<<" ">>>>]}
Trees == SeqsUpTo(NodeKinds, MaxNodes)

\* lines that hold something else than blanks and a comment
ContentLines(c) ==
    LET lines == split(c, "\n")
    IN  {i \in 1..Len(lines) :
            strip(lines[i]) # <<>> /\ ~startswith(strip(lines[i]), <<"#">>)}

Outcome(k) == [k |-> k, text |-> <<>>, tree |-> <<>>, list |-> <<>>, value |-> 0]

\* open(filepath, encoding=...) and f.read()
OpenOutcomes ==
    {[Outcome("ok") EXCEPT !.text = c] : c \in Codes}
    \cup {Outcome("UnicodeDecodeError"), Outcome("FileNotFoundError"),
          Outcome("PermissionError")}

\* ast.parse(code): a def or class statement takes a line of its own
ParseOutcomes(c) ==
    {[Outcome("ok") EXCEPT !.tree = t] :
        t \in {u \in Trees : Len(u) <= Cardinality(ContentLines(c))}}
    \cup (IF ContentLines(c) # {}
            THEN {Outcome("SyntaxError"), Outcome("ValueError"),
                  Outcome("RecursionError"), Outcome("MemoryError")}
            ELSE {})

UnitComplexities == {1, 12}

\* cc_visit(code)
CcOutcomes(c) ==
    {[Outcome("ok") EXCEPT !.list = l] :
        l \in {u \in SeqsUpTo(UnitComplexities, MaxUnits) :
                    u = <<>> \/ ContentLines(c) # {}}}
    \cup {Outcome("Exception")}

\* mi_visit(code, multi=True)
MiOutcomes ==
    {[Outcome("ok") EXCEPT !.value = v] : v \in {R(35, 0), R(60, 0), R(80, 400)}}
    \cup {Outcome("not_a_number"), Outcome("Exception")}

Stdouts == {<<>>, <<"1", "6", "\n">>, <<"E", "\n", "1">>}

\* subprocess.run(["flake8", ...], timeout=30, check=False)
Flake8Outcomes ==
    {[Outcome("completed") EXCEPT !.text = t] : t \in Stdouts}
    \cup {Outcome("TimeoutExpired"), Outcome("FileNotFoundError"),
          Outcome("PermissionError")}

BlankFrame ==
    [loc |-> 0, num_funcs |-> 0, num_classes |-> 0, avg_complexity |-> 0,
     max_complexity |-> 0, mi_score |-> 0, errors |-> 0, warnings |-> 0,
     pep8_errors |-> 0, pep8_warnings |-> 0, docstring_coverage |-> 0,
     comment_density |-> 0, score |-> 0]

IdleAf ==
    [pc |-> "idle", filepath |-> <<>>, code |-> <<>>, tree |-> <<>>,
     frame |-> BlankFrame, ret |-> <<>>, via |-> "", exc |-> "", msg |-> "",
     events |-> <<>>]

\* the activation on entry of analyze_file(filepath)
Enter(filepath) == [IdleAf EXCEPT !.pc = "open_utf8", !.filepath = filepath]

Event(st, call, o) == Append(st.events, [call |-> call, outcome |-> o.k])

\* `return r` at the return statement `via`: code and tree are gone
Return(st, r, via, ev) ==
    [st EXCEPT !.pc = "returned", !.ret = <<r>>, !.via = via, !.code = <<>>,
               !.tree = <<>>, !.events = ev]

\* `return self._create_error_metrics(filepath, error_msg)`: the record, and
\* the tag of the message line 247 prints
ReturnError(st, error_msg, ev) ==
    [Return(st, _create_error_metrics(st.filepath), "_create_error_metrics", ev)
        EXCEPT !.msg = error_msg]

\* an exception no handler of analyze_file matches
Raise(st, e, ev) ==
    [st EXCEPT !.pc = "raised", !.exc = e, !.code = <<>>, !.tree = <<>>,
               !.events = ev]

\* an opening that gives up, with the tag of line 56, when utf-8 fails
OpenUtf8StepNoFallback(st, o) ==
    LET ev == Event(st, "open_utf8", o)
    IN  CASE o.k = "ok" -> [st EXCEPT !.pc = "parse", !.code = o.text, !.events = ev]
          [] o.k = "UnicodeDecodeError" -> ReturnError(st, "Encoding Error", ev)
          [] o.k = "FileNotFoundError" -> ReturnError(st, "File Not Found", ev)
          [] OTHER -> ReturnError(st, "Read Error", ev)

\* lines 48-51 and 57-60
OpenUtf8Step(st, o) ==
    LET ev == Event(st, "open_utf8", o)
    IN  CASE o.k = "ok" -> [st EXCEPT !.pc = "parse", !.code = o.text, !.events = ev]
          [] o.k = "UnicodeDecodeError" -> [st EXCEPT !.pc = "open_cp1251", !.events = ev]
          [] o.k = "FileNotFoundError" -> ReturnError(st, "File Not Found", ev)
          [] OTHER -> ReturnError(st, "Read Error", ev)

\* lines 52-56
OpenCp1251Step(st, o) ==
    LET ev == Event(st, "open_cp1251", o)
    IN  IF o.k = "ok" THEN [st EXCEPT !.pc = "parse", !.code = o.text, !.events = ev]
        ELSE ReturnError(st, "Encoding Error", ev)

\* lines 62-65
ParseStep(st, o) ==
    LET ev == Event(st, "ast_parse", o)
    IN  CASE o.k = "ok" -> [st EXCEPT !.pc = "counts", !.tree = o.tree, !.events = ev]
          [] o.k \in {"SyntaxError", "ValueError"} ->
                ReturnError(st, "Syntax Error", ev)
          [] OTHER -> Raise(st, o.k, ev)

\* a line count that counts the newline characters of the text
CountsStepNewlines(st) ==
    [st EXCEPT !.pc = "complexity",
               !.frame.loc = Cardinality({i \in 1..Len(st.code) : st.code[i] = "\n"}),
               !.frame.num_funcs = CountNodes(st.tree, "FunctionDef"),
               !.frame.num_classes = CountNodes(st.tree, "ClassDef")]

\* lines 68-70
CountsStep(st) ==
    [st EXCEPT !.pc = "complexity",
               !.frame.loc = Len(split(st.code, "\n")),
               !.frame.num_funcs = CountNodes(st.tree, "FunctionDef"),
               !.frame.num_classes = CountNodes(st.tree, "ClassDef")]

\* lines 73-82
ComplexityStep(st, o) ==
    LET ev == Event(st, "cc_visit", o)
    IN  IF o.k = "ok"
        THEN [st EXCEPT !.pc = "maintainability", !.events = ev,
                        !.frame.avg_complexity = AvgComplexity(o.list),
                        !.frame.max_complexity = MaxComplexity(o.list)]
        ELSE [st EXCEPT !.pc = "maintainability", !.events = ev,
                        !.frame.avg_complexity = 0,
                        !.frame.max_complexity = 0]

\* lines 85-92
MaintainabilityStep(st, o) ==
    LET ev == Event(st, "mi_visit", o)
    IN  [st EXCEPT !.pc = "flake8_errors", !.events = ev,
                   !.frame.mi_score = IF o.k = "ok" THEN o.value ELSE 0]

\* _run_pep8_check returns (errors, warnings) to line 95
Pep8Return(st, errors, warnings, ev) ==
    [st EXCEPT !.pc = "docstring", !.events = ev,
               !.frame.pep8_errors = errors, !.frame.pep8_warnings = warnings]

\* a first run whose exception does not end _run_pep8_check
Flake8ErrorsStepGoesOn(st, o) ==
    LET ev == Event(st, "flake8_EF", o)
    IN  [st EXCEPT !.pc = "flake8_warnings", !.events = ev,
                   !.frame.errors =
                        IF o.k = "completed" THEN CountFromStdout(o.text, 0) ELSE 0,
                   !.frame.warnings = 0]

\* lines 149-161, and 176-184 when the run raises
Flake8ErrorsStep(st, o) ==
    LET ev == Event(st, "flake8_EF", o)
    IN  IF o.k = "completed"
        THEN [st EXCEPT !.pc = "flake8_warnings", !.events = ev,
                        !.frame.errors = CountFromStdout(o.text, 0),
                        !.frame.warnings = 0]
        ELSE Pep8Return(st, 0, 0, ev)

\* a handler that keeps the count the first run gave
Flake8WarningsStepKeepsErrors(st, o) ==
    LET ev == Event(st, "flake8_W", o)
    IN  IF o.k = "completed"
        THEN Pep8Return([st EXCEPT !.frame.warnings = CountFromStdout(o.text, 0)],
                        st.frame.errors, CountFromStdout(o.text, 0), ev)
        ELSE Pep8Return(st, st.frame.errors, 0, ev)

\* lines 164-174, and 176-184 when the run raises
Flake8WarningsStep(st, o) ==
    LET ev == Event(st, "flake8_W", o)
    IN  IF o.k = "completed"
        THEN Pep8Return([st EXCEPT !.frame.warnings = CountFromStdout(o.text, 0)],
                        st.frame.errors, CountFromStdout(o.text, 0), ev)
        ELSE Pep8Return(st, 0, 0, ev)

\* lines 98-100
DocstringStep(st) ==
    [st EXCEPT !.pc = "comment",
               !.frame.docstring_coverage =
                    _calculate_docstring_coverage(st.tree, st.frame.num_funcs,
                                                  st.frame.num_classes)]

\* line 103
CommentStep(st) ==
    [st EXCEPT !.pc = "score",
               !.frame.comment_density = _calculate_comment_density(st.code)]

\* lines 106-116
ScoreStep(st) ==
    [st EXCEPT !.pc = "return",
               !.frame.score = _calculate_score(__init__, ScoreInput(st.frame))]

\* lines 118-131
ReturnStep(st) == Return(st, SuccessRecord(st.filepath, st.frame), "CodeMetrics", st.events)

\* the statement at st.pc, run with outcome o
StepAt(st, o) ==
    CASE st.pc = "open_utf8" -> OpenUtf8Step(st, o)
      [] st.pc = "open_cp1251" -> OpenCp1251Step(st, o)
      [] st.pc = "parse" -> ParseStep(st, o)
      [] st.pc = "counts" -> CountsStep(st)
      [] st.pc = "complexity" -> ComplexityStep(st, o)
      [] st.pc = "maintainability" -> MaintainabilityStep(st, o)
      [] st.pc = "flake8_errors" -> Flake8ErrorsStep(st, o)
      [] st.pc = "flake8_warnings" -> Flake8WarningsStep(st, o)
      [] st.pc = "docstring" -> DocstringStep(st)
      [] st.pc = "comment" -> CommentStep(st)
      [] st.pc = "score" -> ScoreStep(st)
      [] st.pc = "return" -> ReturnStep(st)

Finished(st) == st.pc \in {"returned", "raised"}

RECURSIVE Run(_, _)
\* the activation run to its end; env gives, for each statement that makes
\* an external call, the outcome of that call
Run(st, env) == IF Finished(st) THEN st ELSE Run(StepAt(st, env[st.pc]), env)

\* analyze_file(filepath) in an environment: how the call ends
analyze_file(filepath, env) == Run(Enter(filepath), env)

(***************************************************************************)
(* Inputs of the scorer                                                    *)
(***************************************************************************)
ErrorsIn == {0, 1, 15, 16, 100}
WarningsIn == {0, 1, 20, 21}
AvgIn == {R(3, 0), R(5, 0), R(5, 50000), R(15, 0), R(40, 0)}
MaxIn == {3, 10, 11, 20, 40}
MaintIn == {-R(5, 0), 0, R(39, 99000), R(40, 0), R(80, 0), R(80, 400), R(90, 0)}
DocIn == {-R(700, 0), 0, R(33, 33333), R(50, 0), R(100, 0), R(150, 0)}
DensityIn == {-R(1, 0), 0, R(1, 99600), R(2, 0), R(5, 0), R(10, 0), R(20, 0), R(25, 0)}

RawMetrics ==
    [pep8_errors : ErrorsIn, pep8_warnings : WarningsIn,
     avg_complexity : AvgIn, max_complexity : MaxIn,
     maintainability : MaintIn, docstring_coverage : DocIn,
     comment_density : DensityIn]

vars == <<metrics, score_out, analyzers, calls, af, walk, report, advice>>

scoreVars == <<metrics, score_out>>
pureVars == <<analyzers, calls>>
fileVars == <<af, walk>>
reportVars == <<report, advice>>

(***************************************************************************)
(* SpecScore: the scorer applied once to every input of RawMetrics         *)
(***************************************************************************)
Analyzers == {"a1", "a2"}

PureIdle ==
    /\ analyzers = [a \in Analyzers |-> __init__]
    /\ calls = <<>>

IdleWalk == [pc |-> "idle", files |-> <<>>, i |-> 1, results |-> <<>>, exc |-> ""]

FileIdle ==
    /\ af = IdleAf
    /\ walk = IdleWalk

IdleReport ==
    [pc |-> "idle", results |-> <<>>, output_path |-> <<>>, files |-> {},
     log |-> <<>>, ret |-> <<>>]

IdleAdvice == [pc |-> "idle", metrics |-> <<>>, recommendations |-> <<>>]

ReportIdle ==
    /\ report = IdleReport
    /\ advice = IdleAdvice

InitScore ==
    /\ metrics \in RawMetrics
    /\ score_out = <<>>
    /\ PureIdle
    /\ FileIdle
    /\ ReportIdle

\* score = self._calculate_score(metrics)
CalculateScore ==
    /\ score_out = <<>>
    /\ score_out' = <<_calculate_score(__init__, metrics)>>
    /\ UNCHANGED <<metrics, pureVars, fileVars, reportVars>>

NextScore == CalculateScore

SpecScore == InitScore /\ [][NextScore]_vars

Scored == score_out # <<>>

\* C1: for every raw-metrics input the scorer returns s with 0 <= s <= 100
C1_ScoreInRange ==
    Scored => (0 <= score_out[1] /\ score_out[1] <= 100 * Scale)

\* C1 witness: the scorer returned on an input whose sum before the clamp
\* is above 100
C1_Witness == Scored /\ ScoreBeforeClamp(metrics) > 100 * Scale

\* the scorer returned on an input whose sum before the clamp is below 0
ScoredBelowZero == Scored /\ ScoreBeforeClamp(metrics) < 0

\* The rubric as the specification words it, step by step
Rubric(m) ==
    LET s0 == 100 * Scale
        s1 == s0 - Min(2 * m.pep8_errors * Scale, 30 * Scale)
        s2 == s1 - Min((m.pep8_warnings * Scale) \div 2, 10 * Scale)
        s3 == IF m.max_complexity > 10
                THEN s2 - Min(2 * (m.max_complexity - 10) * Scale, 20 * Scale)
                ELSE s2
        s4 == IF m.avg_complexity > 5 * Scale
                THEN s3 - Min(m.avg_complexity - 5 * Scale, 10 * Scale)
                ELSE s3
        s5 == IF m.maintainability > 80 * Scale THEN s4 + 5 * Scale
              ELSE IF m.maintainability < 40 * Scale THEN s4 - 10 * Scale
              ELSE s4
        s6 == s5 + Min((15 * m.docstring_coverage) \div 100, 15 * Scale)
        s7 == IF m.comment_density >= 5 * Scale /\ m.comment_density <= 20 * Scale
                THEN s6 + 5 * Scale
              ELSE IF m.comment_density < 2 * Scale THEN s6 - 5 * Scale
              ELSE s6
    IN  IF s7 < 0 THEN 0 ELSE IF s7 > 100 * Scale THEN 100 * Scale ELSE s7

\* the scenario of the specification's section 8
BestCase ==
    [pep8_errors |-> 0, pep8_warnings |-> 0, avg_complexity |-> R(3, 0),
     max_complexity |-> 3, maintainability |-> R(90, 0),
     docstring_coverage |-> R(100, 0), comment_density |-> R(10, 0)]

\* C2: the scorer equals the reference rubric on every input, and on the
\* best-case input the sum before the clamp is 125 and the result exactly 100
C2_ScoreIsRubric ==
    Scored =>
        /\ score_out[1] = Rubric(metrics)
        /\ metrics = BestCase =>
            (ScoreBeforeClamp(metrics) = 125 * Scale /\ score_out[1] = 100 * Scale)

\* C2 witness: the scorer returned on the best-case input
C2_Witness == Scored /\ metrics = BestCase

\* C7: with the other fields fixed, more pep8_errors never gives a higher score
C7_ErrorsMonotone ==
    Scored =>
        \A e \in ErrorsIn :
            LET other == _calculate_score(__init__, [metrics EXCEPT !.pep8_errors = e])
            IN  /\ e >= metrics.pep8_errors => other <= score_out[1]
                /\ e <= metrics.pep8_errors => other >= score_out[1]

\* C7 witness: a scored input for which more errors give a strictly lower score
C7_Witness ==
    /\ Scored
    /\ \E e \in ErrorsIn :
        /\ e > metrics.pep8_errors
        /\ _calculate_score(__init__, [metrics EXCEPT !.pep8_errors = e]) < score_out[1]

InRange0to100(d) == 0 <= d /\ d <= 100 * Scale

\* C8: with the other fields fixed, a larger docstring_coverage in [0,100]
\* never gives a lower score
C8_DocstringMonotone ==
    (Scored /\ InRange0to100(metrics.docstring_coverage)) =>
        \A d \in {x \in DocIn : InRange0to100(x)} :
            LET other ==
                    _calculate_score(__init__, [metrics EXCEPT !.docstring_coverage = d])
            IN  /\ d >= metrics.docstring_coverage => other >= score_out[1]
                /\ d <= metrics.docstring_coverage => other <= score_out[1]

\* C8 witness: a scored input for which more coverage gives a strictly higher score
C8_Witness ==
    /\ Scored
    /\ InRange0to100(metrics.docstring_coverage)
    /\ \E d \in {x \in DocIn : InRange0to100(x)} :
        /\ d > metrics.docstring_coverage
        /\ _calculate_score(__init__, [metrics EXCEPT !.docstring_coverage = d])
               > score_out[1]

\* the most each field can take from or add to the score, lines 219-241
FieldCap ==
    [pep8_errors |-> 30, pep8_warnings |-> 10, max_complexity |-> 20,
     avg_complexity |-> 10, maintainability |-> 15, docstring_coverage |-> 15,
     comment_density |-> 10]

FieldValues ==
    [pep8_errors |-> ErrorsIn, pep8_warnings |-> WarningsIn,
     max_complexity |-> MaxIn, avg_complexity |-> AvgIn,
     maintainability |-> MaintIn, docstring_coverage |-> DocIn,
     comment_density |-> DensityIn]

Abs(x) == IF x < 0 THEN -x ELSE x

\* the unclamped score of m with the field f alone changed to v
Changed(m, f, v) == ScoreBeforeClamp([m EXCEPT ![f] = v])

\* the unclamped score `before` carries no net penalty
PenaltyFree(before) == before >= 100 * Scale

\* a change of the field f that takes the unclamped score from `before` to
\* `after` stays within the field's cap, moves the score by no more than 30
\* and does not bring a penalty-free score to 0
WithinCap(f, before, after) ==
    LET moved == Abs(after - before)
    IN  /\ moved <= FieldCap[f] * Scale
        /\ moved <= 30 * Scale
        /\ PenaltyFree(before) => Clamp(after) > 0

MaxCalls == 3

\* the inputs the calls are made with
PureInputs ==
    {BestCase,
     [BestCase EXCEPT !.pep8_errors = 16, !.maintainability = 0],
     [BestCase EXCEPT !.pep8_warnings = 21, !.docstring_coverage = R(33, 33333),
                      !.comment_density = 0]}

\* weights other than the ones __init__ sets
OtherWeights ==
    {[metrics_weights |->
        [pep8 |-> p, complexity |-> 25, maintainability |-> 20,
         docstrings |-> 15, comments |-> 40 - p]] : p \in {0, 40}}

InitPure ==
    /\ PureIdle
    /\ FileIdle
    /\ ReportIdle
    /\ metrics = BestCase
    /\ score_out = <<>>

\* analyzer `a` runs self._calculate_score(m)
Call(a, m) ==
    /\ Len(calls) < MaxCalls
    /\ calls' = Append(calls,
            [self |-> a, input |-> m,
             output |-> _calculate_score(analyzers[a], m)])
    /\ analyzers' = [analyzers EXCEPT ![a] = _calculate_score_self(analyzers[a], m)]
    /\ UNCHANGED <<scoreVars, fileVars, reportVars>>

NextPure == \E a \in Analyzers, m \in PureInputs : Call(a, m)

SpecPure == InitPure /\ [][NextPure]_vars

\* C6: the scorer is pure: calls with identical input return identical output
\* whatever the instance and the calls before; no call changes an analyzer's
\* metrics_weights; the output is the same whatever the weights are
C6_ScorePure ==
    /\ \A i, j \in 1..Len(calls) :
        calls[i].input = calls[j].input => calls[i].output = calls[j].output
    /\ \A a \in Analyzers : analyzers[a] = __init__
    /\ \A i \in 1..Len(calls) : \A w \in OtherWeights :
        _calculate_score(w, calls[i].input) = calls[i].output

\* C6 witness: the same input was scored twice, on two instances, with a call
\* on another input in between
C6_Witness ==
    /\ Len(calls) = 3
    /\ calls[1].input = calls[3].input
    /\ calls[1].input # calls[2].input
    /\ calls[1].self # calls[3].self

(***************************************************************************)
(* Spec: calls of analyze_file, one statement at a time                    *)
(***************************************************************************)
PyName == <<"a", ".", "p", "y">>
FilePaths == {<<<<"d">>, PyName>>}

ScoreIdle == metrics = BestCase /\ score_out = <<>>

Init ==
    /\ af = IdleAf
    /\ walk = IdleWalk
    /\ ScoreIdle
    /\ PureIdle
    /\ ReportIdle

Others == <<scoreVars, pureVars, walk, reportVars>>

\* analyzer.analyze_file(filepath)
CallAnalyzeFile ==
    /\ af.pc \in {"idle", "returned", "raised"}
    /\ \E p \in FilePaths : af' = Enter(p)
    /\ UNCHANGED Others

OpenUtf8 ==
    /\ af.pc = "open_utf8"
    /\ \E o \in OpenOutcomes : af' = OpenUtf8Step(af, o)
    /\ UNCHANGED Others

OpenCp1251 ==
    /\ af.pc = "open_cp1251"
    /\ \E o \in OpenOutcomes : af' = OpenCp1251Step(af, o)
    /\ UNCHANGED Others

Parse ==
    /\ af.pc = "parse"
    /\ \E o \in ParseOutcomes(af.code) : af' = ParseStep(af, o)
    /\ UNCHANGED Others

Counts ==
    /\ af.pc = "counts"
    /\ af' = CountsStep(af)
    /\ UNCHANGED Others

Complexity ==
    /\ af.pc = "complexity"
    /\ \E o \in CcOutcomes(af.code) : af' = ComplexityStep(af, o)
    /\ UNCHANGED Others

Maintainability ==
    /\ af.pc = "maintainability"
    /\ \E o \in MiOutcomes : af' = MaintainabilityStep(af, o)
    /\ UNCHANGED Others

Flake8Errors ==
    /\ af.pc = "flake8_errors"
    /\ \E o \in Flake8Outcomes : af' = Flake8ErrorsStep(af, o)
    /\ UNCHANGED Others

Flake8Warnings ==
    /\ af.pc = "flake8_warnings"
    /\ \E o \in Flake8Outcomes : af' = Flake8WarningsStep(af, o)
    /\ UNCHANGED Others

Docstring ==
    /\ af.pc = "docstring"
    /\ af' = DocstringStep(af)
    /\ UNCHANGED Others

Comment ==
    /\ af.pc = "comment"
    /\ af' = CommentStep(af)
    /\ UNCHANGED Others

Score ==
    /\ af.pc = "score"
    /\ af' = ScoreStep(af)
    /\ UNCHANGED Others

ReturnRecord ==
    /\ af.pc = "return"
    /\ af' = ReturnStep(af)
    /\ UNCHANGED Others

Next ==
    \/ CallAnalyzeFile
    \/ OpenUtf8
    \/ OpenCp1251
    \/ Parse
    \/ Counts
    \/ Complexity
    \/ Maintainability
    \/ Flake8Errors
    \/ Flake8Warnings
    \/ Docstring
    \/ Comment
    \/ Score
    \/ ReturnRecord

Spec == Init /\ [][Next]_vars

Returned == af.pc = "returned"
Happened(call, k) ==
    \E i \in 1..Len(af.events) : af.events[i] = [call |-> call, outcome |-> k]

\* the record is the one _create_error_metrics builds
IsErrorRecord(r) ==
    /\ r.pep8_errors = 100
    /\ r.lines_of_code = 0 /\ r.num_functions = 0 /\ r.num_classes = 0
    /\ r.avg_complexity = 0 /\ r.max_complexity = 0

Success == Returned /\ af.via = "CodeMetrics"
Failure == Returned /\ af.via = "_create_error_metrics"

\* every record analyze_file returns has 0 <= score <= 100
RecordScoreInRange ==
    Returned => (0 <= af.ret[1].score /\ af.ret[1].score <= 100 * Scale)

\* C3: when ast.parse raises SyntaxError, analyze_file returns, without
\* raising, a record with score 0, pep8_errors 100 and lines_of_code,
\* num_functions, num_classes, avg_complexity, max_complexity all 0
C3_SyntaxErrorRecord ==
    Happened("ast_parse", "SyntaxError") =>
        /\ Returned /\ af.exc = ""
        /\ af.ret[1].score = 0
        /\ af.ret[1].pep8_errors = 100
        /\ af.ret[1].lines_of_code = 0
        /\ af.ret[1].num_functions = 0
        /\ af.ret[1].num_classes = 0
        /\ af.ret[1].avg_complexity = 0
        /\ af.ret[1].max_complexity = 0

\* C3 witness: a call whose parse raised SyntaxError has returned
C3_Witness == Returned /\ Happened("ast_parse", "SyntaxError")

\* C4: analyze_file never lets an exception out: whatever fails in its steps,
\* it ends by returning a record
C4_NeverRaises ==
    /\ af.pc # "raised"
    /\ af.exc = ""

\* the scorer's input rebuilt from the fields a record stores
StoredInput(r) ==
    [pep8_errors |-> r.pep8_errors, pep8_warnings |-> r.pep8_warnings,
     avg_complexity |-> r.avg_complexity, max_complexity |-> r.max_complexity,
     maintainability |-> r.maintainability_index,
     docstring_coverage |-> r.docstring_coverage,
     comment_density |-> r.comment_density]

\* the scorer's input as measured, before anything is rounded
MeasuredInput(f) ==
    [pep8_errors |-> f.pep8_errors, pep8_warnings |-> f.pep8_warnings,
     avg_complexity |-> f.avg_complexity, max_complexity |-> f.max_complexity,
     maintainability |-> f.mi_score, docstring_coverage |-> f.docstring_coverage,
     comment_density |-> f.comment_density]

StoredUnchanged(r, f) ==
    /\ r.avg_complexity = f.avg_complexity
    /\ r.maintainability_index = f.mi_score
    /\ r.docstring_coverage = f.docstring_coverage
    /\ r.comment_density = f.comment_density

\* C9 as stated: for every record returned, the scoring formula applied to
\* the stored fields yields the stored score
C9_ScoreOfStoredFields ==
    Returned =>
        _calculate_score(__init__, StoredInput(af.ret[1])) = af.ret[1].score

\* C9 amended: a success record stores the formula's value on the metrics as
\* measured, rounded to 2 decimals, which is the rounded formula of the
\* stored fields whenever rounding left them unchanged; an error record
\* stores 0 although the formula gives 55 on its stored fields
C9_ScoreOfMeasuredFields ==
    /\ Success =>
        /\ af.ret[1].score =
                Round2(_calculate_score(__init__, MeasuredInput(af.frame)))
        /\ StoredUnchanged(af.ret[1], af.frame) =>
                Round2(_calculate_score(__init__, StoredInput(af.ret[1])))
                    = af.ret[1].score
    /\ Failure =>
        /\ af.ret[1].score = 0
        /\ _calculate_score(__init__, StoredInput(af.ret[1])) = 55 * Scale

\* C9 witness: a success record whose stored fields, rounded, score
\* differently from the stored score
C9_Witness ==
    /\ Success
    /\ Round2(_calculate_score(__init__, StoredInput(af.ret[1]))) # af.ret[1].score

Flake8Failed ==
    \E i \in 1..Len(af.events) :
        /\ af.events[i].call \in {"flake8_EF", "flake8_W"}
        /\ af.events[i].outcome \in {"TimeoutExpired", "FileNotFoundError"}

\* C10: _run_pep8_check never raises, and gives (0, 0) whenever one of its
\* two runs timed out or found no tool, also when the first run had counted
\* errors; the call of analyze_file then ends with a success record
C10_Pep8FailsSoft ==
    Flake8Failed =>
        /\ af.exc = ""
        /\ af.frame.pep8_errors = 0 /\ af.frame.pep8_warnings = 0
        /\ Returned =>
            /\ Success
            /\ af.ret[1].pep8_errors = 0 /\ af.ret[1].pep8_warnings = 0

\* C10 witness: the first run counted errors, the second timed out, and the
\* call returned
C10_Witness ==
    /\ Returned
    /\ Happened("flake8_EF", "completed")
    /\ Happened("flake8_W", "TimeoutExpired")
    /\ af.frame.errors > 0

\* the statements after line 100, where docstring_coverage is set
AfterDocstring == af.pc \in {"comment", "score", "return"} \/ Success

\* the statements after line 103, where comment_density is set and `code`
\* is still there
AfterComment == af.pc \in {"score", "return"}

\* C11: for a parsed source without function and class definitions,
\* _calculate_docstring_coverage returns exactly 100.0; its division by
\* total_entities is not reached
C11_NoEntitiesFullCoverage ==
    (AfterDocstring /\ af.frame.num_funcs = 0 /\ af.frame.num_classes = 0) =>
        /\ af.frame.num_funcs + af.frame.num_classes = 0
        /\ af.frame.docstring_coverage = 100 * Scale
        /\ Success => af.ret[1].docstring_coverage = 100 * Scale

\* C11 witness: a source with a line of code and no definition was analysed
C11_Witness ==
    /\ af.pc = "comment"
    /\ ContentLines(af.code) # {}
    /\ af.frame.num_funcs = 0 /\ af.frame.num_classes = 0

\* C12: for the empty source text comment_density is 0.0 and
\* docstring_coverage is 100.0, and neither computation divides by zero: the
\* empty text splits into one line and the tree has no entity
C12_EmptySource ==
    (AfterComment /\ af.code = <<>>) =>
        /\ Len(split(af.code, "\n")) = 1
        /\ af.frame.loc = 1
        /\ af.frame.comment_density = 0
        /\ af.frame.num_funcs + af.frame.num_classes = 0
        /\ af.frame.docstring_coverage = 100 * Scale

\* C12 witness: the empty text went through both computations
C12_Witness == af.pc = "return" /\ af.code = <<>>

\* the entities of the tree that have a docstring, lines 196-200
EntitiesWithDoc(t) == {i \in 1..Len(t) : IsEntity(t[i]) /\ HasDocstring(t[i])}

Percentage(x) == 0 <= x /\ x <= 100 * Scale

\* C18: every record analyze_file returns has 0 <= docstring_coverage <= 100
\* and 0 <= comment_density <= 100; the documented entities are never more
\* than num_funcs + num_classes and the comment lines never more than the
\* lines of the text
C18_CoverageAndDensityInRange ==
    /\ Returned =>
        /\ Percentage(af.ret[1].docstring_coverage)
        /\ Percentage(af.ret[1].comment_density)
    /\ AfterComment =>
        /\ Cardinality(EntitiesWithDoc(af.tree))
              <= af.frame.num_funcs + af.frame.num_classes
        /\ Cardinality(CommentLines(split(af.code, "\n")))
              <= Len(split(af.code, "\n"))
        /\ Percentage(af.frame.docstring_coverage)
        /\ Percentage(af.frame.comment_density)

\* C18 witness: a returned record whose text is comment lines only
C18_Witness == Success /\ af.ret[1].comment_density = 100 * Scale

\* the raw metrics without a negative field
NonNegativeInputs ==
    {m \in RawMetrics :
        /\ m.pep8_errors >= 0 /\ m.pep8_warnings >= 0
        /\ m.avg_complexity >= 0 /\ m.max_complexity >= 0
        /\ m.maintainability >= 0 /\ m.docstring_coverage >= 0
        /\ m.comment_density >= 0}

\* 100 - 30 - 10 - 20 - 10 - 10 - 5
LeastUnclamped == (100 - 30 - 10 - 20 - 10 - 10 - 5) * Scale

UnclampedAtLeast15 ==
    \A m \in NonNegativeInputs : ScoreBeforeClamp(m) >= LeastUnclamped

\* C20: a success record never has score 0: for non-negative inputs with
\* docstring_coverage >= 0 the unclamped score is at least 15, the lower
\* clamp is not active in analyze_file, and a returned record has score 0
\* if and only if _create_error_metrics produced it
C20_ZeroScoreIffErrorRecord ==
    /\ LeastUnclamped = 15 * Scale
    /\ UnclampedAtLeast15
    /\ af.pc = "return" =>
        /\ ScoreBeforeClamp(ScoreInput(af.frame)) >= LeastUnclamped
        /\ af.frame.score >= LeastUnclamped
    /\ Returned => (af.ret[1].score = 0 <=> af.via = "_create_error_metrics")
    /\ Returned => (af.ret[1].score = 0 <=> IsErrorRecord(af.ret[1]))

\* C20 witness: a successful analysis that collected penalties for errors,
\* complexity and maintainability and still has a positive score
C20_Witness ==
    /\ Success
    /\ af.ret[1].pep8_errors > 15 /\ af.ret[1].max_complexity > 10
    /\ af.ret[1].maintainability_index < 40 * Scale
    /\ af.ret[1].score > 0

\* the i-th external call of the activation
Called(i, call, k) ==
    i <= Len(af.events) /\ af.events[i] = [call |-> call, outcome |-> k]

\* the activation a file decoded as utf-8 to the text c is in before parsing
PrimaryDecoded(filepath, c) ==
    OpenUtf8Step(Enter(filepath), [Outcome("ok") EXCEPT !.text = c])

\* C13: analyze_file opens the file as utf-8 first and as cp1251 only after
\* the utf-8 read raised UnicodeDecodeError; the record tagged
\* "Encoding Error" is returned only when the cp1251 read failed too; and
\* after a cp1251 read that succeeded the activation is, but for the log of
\* calls, the one of a utf-8 read of the same text
C13_EncodingFallback ==
    /\ af.events # <<>> => af.events[1].call = "open_utf8"
    /\ \A i \in 1..Len(af.events) :
          af.events[i].call = "open_cp1251" =>
              i = 2 /\ Called(1, "open_utf8", "UnicodeDecodeError")
    /\ af.msg = "Encoding Error" <=>
          /\ Failure
          /\ Called(1, "open_utf8", "UnicodeDecodeError")
          /\ Len(af.events) = 2 /\ af.events[2].call = "open_cp1251"
          /\ af.events[2].outcome # "ok"
    /\ (af.pc = "parse" /\ Called(2, "open_cp1251", "ok")) =>
          [af EXCEPT !.events = <<>>]
              = [PrimaryDecoded(af.filepath, af.code) EXCEPT !.events = <<>>]

\* C13 witness: a file that is not utf-8 was read as cp1251 and analysed
C13_Witness ==
    /\ Success
    /\ Called(1, "open_utf8", "UnicodeDecodeError")
    /\ Called(2, "open_cp1251", "ok")

\* a is the arithmetic mean of the list l, to the precision of Scale
IsMean(a, l) ==
    /\ Len(l) * a <= sum(l) * Scale
    /\ sum(l) * Scale < Len(l) * a + Len(l)

\* x is the maximum of the list l
IsMaximum(x, l) ==
    /\ \E i \in 1..Len(l) : l[i] = x
    /\ \A i \in 1..Len(l) : l[i] <= x

\* what lines 73-82 leave in avg_complexity and max_complexity after the
\* outcome o of cc_visit
ComplexityOf(o, f) ==
    IF o.k = "ok" /\ o.list # <<>>
        THEN /\ IsMean(f.avg_complexity, o.list)
             /\ IsMaximum(f.max_complexity, o.list)
        ELSE f.avg_complexity = 0 /\ f.max_complexity = 0

BetweenComplexityAndReturn ==
    af.pc \in {"maintainability", "flake8_errors", "flake8_warnings",
               "docstring", "comment", "score", "return"}

\* one step of analyze_file, seen from the complexity fields
ComplexityFieldsStep ==
    /\ af.pc = "complexity" =>
          \A o \in CcOutcomes(af.code) :
              af' = ComplexityStep(af, o) => ComplexityOf(o, af'.frame)
    /\ BetweenComplexityAndReturn =>
          /\ af'.frame.avg_complexity = af.frame.avg_complexity
          /\ af'.frame.max_complexity = af.frame.max_complexity
          /\ af.frame.max_complexity * Scale >= af.frame.avg_complexity
    /\ (af.pc = "return" /\ af'.pc = "returned") =>
          /\ af'.ret[1].avg_complexity = Round2(af.frame.avg_complexity)
          /\ af'.ret[1].max_complexity = af.frame.max_complexity
    /\ af'.pc = "returned" =>
          af'.ret[1].max_complexity * Scale >= af'.ret[1].avg_complexity
    /\ (af'.pc = "returned" /\ af'.via = "_create_error_metrics") =>
          af'.ret[1].avg_complexity = 0 /\ af'.ret[1].max_complexity = 0

\* C14: in every record analyze_file returns max_complexity >= avg_complexity;
\* avg_complexity is the arithmetic mean and max_complexity the maximum of
\* the complexities cc_visit reported, and both are 0 when it reported no
\* unit or raised
C14_MaxAtLeastAvg == [][ComplexityFieldsStep]_vars

\* C14 witness: a record for two units of complexities 1 and 12
C14_Witness ==
    /\ Success
    /\ af.ret[1].avg_complexity = R(6, 50000)
    /\ af.ret[1].max_complexity = 12

\* the positions of the external calls named `call` in the log of calls
CallsOf(call) == {i \in 1..Len(af.events) : af.events[i].call = call}

\* the subprocess runs of _run_pep8_check
CheckerCalls == CallsOf("flake8_EF") \cup CallsOf("flake8_W")

\* before the i-th call a read of the file and ast.parse had succeeded
ReadAndParsedBefore(i) ==
    /\ \E j \in 1..(i - 1) :
          /\ af.events[j].call \in {"open_utf8", "open_cp1251"}
          /\ af.events[j].outcome = "ok"
    /\ \E j \in 1..(i - 1) : af.events[j] = [call |-> "ast_parse", outcome |-> "ok"]

\* the style checker runs only after the file was read and parsed, and never
\* on a path that ends in an error record
CheckerOnlyAfterParse ==
    /\ \A i \in CheckerCalls : ReadAndParsedBefore(i)
    /\ Failure => CheckerCalls = {}
    /\ Failure => af.msg \in {"File Not Found", "Read Error", "Encoding Error",
                              "Syntax Error"}

\* C21 as stated: the style checker runs only after the file was read and
\* parsed, never on a path that ends in an error record, and on every
\* success path with two subprocess calls, errors before warnings
C21_TwoCheckerCallsOnSuccess ==
    /\ CheckerOnlyAfterParse
    /\ Success =>
          /\ Cardinality(CallsOf("flake8_EF")) = 1
          /\ Cardinality(CallsOf("flake8_W")) = 1
          /\ \A i \in CallsOf("flake8_EF") : \A j \in CallsOf("flake8_W") : i < j

\* C21: the style checker runs only after the file was read and parsed and
\* never on a path that ends in an error record; on every success path
\* _run_pep8_check runs once: it makes the errors call once and then, only
\* if that call did not raise, the warnings call once
C21_CheckerOnceOnSuccess ==
    /\ CheckerOnlyAfterParse
    /\ Cardinality(CallsOf("flake8_EF")) <= 1
    /\ \A j \in CallsOf("flake8_W") :
          j > 1 /\ af.events[j - 1] = [call |-> "flake8_EF", outcome |-> "completed"]
    /\ Success =>
          /\ Cardinality(CallsOf("flake8_EF")) = 1
          /\ Cardinality(CallsOf("flake8_W"))
                = (IF Happened("flake8_EF", "completed") THEN 1 ELSE 0)

\* C21 witness: a file read as cp1251 and parsed, then checked with two
\* subprocess calls, and a success record returned
C21_Witness ==
    /\ Success
    /\ Called(2, "open_cp1251", "ok") /\ Called(3, "ast_parse", "ok")
    /\ Called(6, "flake8_EF", "completed") /\ Called(7, "flake8_W", "completed")

\* a success record made after one subprocess call only
OneCheckerCallOnSuccess ==
    /\ Success
    /\ Happened("flake8_EF", "FileNotFoundError")
    /\ CallsOf("flake8_W") = {}

\* str.split("\n") gives at least one segment, and one for the empty text
EveryTextHasASegment ==
    /\ \A c \in Codes : Len(split(c, "\n")) >= 1
    /\ Len(split(<<>>, "\n")) = 1

\* C22: every success record has lines_of_code >= 1, the empty text having
\* one segment; the total_lines == 0 branch of _calculate_comment_density
\* is not reachable; and a returned record has lines_of_code == 0 only if it
\* is an error record
C22_SuccessHasLines ==
    /\ EveryTextHasASegment
    /\ AfterComment =>
          /\ Len(split(af.code, "\n")) # 0
          /\ af.frame.loc = Len(split(af.code, "\n"))
    /\ Success => af.ret[1].lines_of_code >= 1
    /\ Returned =>
          (af.ret[1].lines_of_code = 0 <=> af.via = "_create_error_metrics")
    /\ (Returned /\ af.ret[1].lines_of_code = 0) => IsErrorRecord(af.ret[1])

\* C22 witness: the success record of a text without a newline and without
\* a comment, a definition or a unit, as the empty file has
C22_Witness ==
    /\ Success
    /\ af.ret[1].lines_of_code = 1
    /\ af.ret[1].comment_density = 0
    /\ af.ret[1].num_functions = 0 /\ af.ret[1].num_classes = 0
    /\ af.ret[1].max_complexity = 0

(***************************************************************************)
(* SpecDir: analyze_directory over a directory r/ with a subdirectory r/s/ *)
(***************************************************************************)
NoCall == Outcome("none")

\* what the external calls of one analyze_file do, by statement
Env(utf8, cp1251, parse, cc, mi, ef, w) ==
    [open_utf8 |-> utf8, open_cp1251 |-> cp1251, parse |-> parse, counts |-> NoCall,
     complexity |-> cc, maintainability |-> mi, flake8_errors |-> ef,
     flake8_warnings |-> w, docstring |-> NoCall, comment |-> NoCall,
     score |-> NoCall, return |-> NoCall]

Text(c) == [Outcome("ok") EXCEPT !.text = c]
Ran(t) == [Outcome("completed") EXCEPT !.text = t]
Valid(c, t, l, mi) ==
    Env(Text(c), Text(c), [Outcome("ok") EXCEPT !.tree = t],
        [Outcome("ok") EXCEPT !.list = l], [Outcome("ok") EXCEPT !.value = mi],
        Ran(<<>>), Ran(<<>>))

\* the files a directory may hold
DirEnvs ==
    [plain |-> Valid(<<"x">>, <<>>, <<>>, R(60, 0)),
     documented |->
        Valid(<<"x", "\n", "#">>, <<[type |-> "FunctionDef", doc |-> <<<<"d">>>>]>>,
              <<1>>, R(80, 400)),
     legacy |->
        [Valid(<<"x">>, <<>>, <<>>, R(35, 0))
            EXCEPT !.open_utf8 = Outcome("UnicodeDecodeError")],
     invalid_syntax |->
        [Valid(<<"x">>, <<>>, <<>>, 0) EXCEPT !.parse = Outcome("SyntaxError")],
     too_deep |->
        [Valid(<<"x">>, <<>>, <<>>, 0) EXCEPT !.parse = Outcome("RecursionError")]]

Root == <<<<"r">>>>
Sub == <<<<"r">>, <<"s">>>>

\* the places of the directory tree, in the order os.walk yields them:
\* `root` and the file name
Places ==
    <<[root |-> Root, file |-> <<"a", ".", "p", "y">>],
      [root |-> Root, file |-> <<"e", ".", "p", "y">>],
      [root |-> Root, file |-> <<"n", ".", "t", "x", "t">>],
      [root |-> Root, file |-> <<"p", "y">>],
      [root |-> Sub, file |-> <<"b", ".", "p", "y">>]>>

IsPyName(file) == endswith(file, <<".", "p", "y">>)

\* a directory tree: what each place holds
FileSystems ==
    {fs \in [DOMAIN Places -> {"absent"} \cup DOMAIN DirEnvs] :
        \A k \in DOMAIN Places :
            ~IsPyName(Places[k].file) => fs[k] \in {"absent", "plain"}}

Present(e) == e.env # "absent"

\* the files os.walk(directory) yields
Walked(fs) ==
    SelectSeq([k \in DOMAIN Places |->
                  [root |-> Places[k].root, file |-> Places[k].file, env |-> fs[k]]],
              Present)

\* os.path.join(root, file)
join(root, file) == Append(root, file)

\* dataclasses.asdict on the flat record
asdict(r) == [f \in DOMAIN r |-> r[f]]

InitDir ==
    /\ \E fs \in FileSystems :
        walk = [pc |-> "loop", files |-> Walked(fs), i |-> 1, results |-> <<>>,
                exc |-> ""]
    /\ af = IdleAf
    /\ ScoreIdle
    /\ PureIdle
    /\ ReportIdle

DirOthers == <<scoreVars, pureVars, af, reportVars>>

\* line 139
TakesFile(file) == endswith(file, <<".", "p", "y">>)

\* lines 140-142, for a file the condition of line 139 takes
AnalyzeNextFile ==
    /\ walk.pc = "loop"
    /\ walk.i <= Len(walk.files)
    /\ TakesFile(walk.files[walk.i].file)
    /\ LET f == walk.files[walk.i]
           end == analyze_file(join(f.root, f.file), DirEnvs[f.env])
       IN  walk' = IF end.pc = "returned"
                   THEN [walk EXCEPT !.i = @ + 1,
                                     !.results = Append(@, asdict(end.ret[1]))]
                   ELSE [walk EXCEPT !.pc = "raised", !.exc = end.exc]
    /\ UNCHANGED DirOthers

\* line 139, for a file the condition does not take
SkipFile ==
    /\ walk.pc = "loop"
    /\ walk.i <= Len(walk.files)
    /\ ~TakesFile(walk.files[walk.i].file)
    /\ walk' = [walk EXCEPT !.i = @ + 1]
    /\ UNCHANGED DirOthers

\* line 144
ReturnResults ==
    /\ walk.pc = "loop"
    /\ walk.i > Len(walk.files)
    /\ walk' = [walk EXCEPT !.pc = "done"]
    /\ UNCHANGED DirOthers

NextDir ==
    \/ AnalyzeNextFile
    \/ SkipFile
    \/ ReturnResults

SpecDir == InitDir /\ [][NextDir]_vars

PyFiles(files) == SelectSeq(files, LAMBDA f : IsPyName(f.file))

CountScoreZero(results) == Cardinality({k \in 1..Len(results) : results[k].score = 0})

\* two valid files and one with invalid syntax
TwoValidOneInvalid(files) ==
    /\ Len(files) = 3
    /\ Cardinality({k \in 1..3 : files[k].env = "invalid_syntax"}) = 1
    /\ Cardinality({k \in 1..3 : files[k].env \in {"plain", "documented", "legacy"}}) = 2
    /\ \A k \in 1..3 : IsPyName(files[k].file)

\* C5: analyze_directory returns one record per file named *.py under the
\* root, none for other files, and a failing file does not stop the files
\* after it; two valid files and one with invalid syntax give 3 records of
\* which exactly one has score 0
C5_OneRecordPerPyFile ==
    /\ walk.pc # "raised"
    /\ walk.pc = "done" =>
        /\ Len(walk.results) = Len(PyFiles(walk.files))
        /\ \A k \in 1..Len(walk.results) :
            walk.results[k].filename = PyFiles(walk.files)[k].file
        /\ TwoValidOneInvalid(walk.files) =>
            (Len(walk.results) = 3 /\ CountScoreZero(walk.results) = 1)

\* what C5 says of the walks in which no call of analyze_file raises
C5_WhenNothingRaises ==
    walk.pc = "done" =>
        /\ Len(walk.results) = Len(PyFiles(walk.files))
        /\ \A k \in 1..Len(walk.results) :
            walk.results[k].filename = PyFiles(walk.files)[k].file
        /\ TwoValidOneInvalid(walk.files) =>
            (Len(walk.results) = 3 /\ CountScoreZero(walk.results) = 1)

(***************************************************************************)
(* ReportGenerator.generate_recommendations (src/src/report_generator.py). *)
(* A dict is a function from its keys; a message is named by a tag:        *)
(*   "PEP8_black"           many PEP8 errors, use black                    *)
(*   "complexity"           high cyclomatic complexity                     *)
(*   "docstring"            add docstrings                                 *)
(*   "add_comments"         add comments                                   *)
(*   "too_many_comments"    too many comments                              *)
(*   "serious_improvement", "room_to_improve", "good_code",                *)
(*   "excellent_code"       the four messages on the overall score         *)
(***************************************************************************)
\* dict.get(key, default)
get(d, k, default) == IF k \in DOMAIN d THEN d[k] ELSE default

\* the messages a condition appends
Appended(cond, message) == IF cond THEN <<message>> ELSE <<>>

\* lines 92-96
Pep8Advice(m) == Appended(get(m, "pep8_errors", 0) > 5, "PEP8_black")

\* lines 99-102
ComplexityAdvice(m) == Appended(get(m, "max_complexity", 0) > 10, "complexity")

\* lines 105-108
DocstringAdvice(m) ==
    Appended(get(m, "docstring_coverage", 0) < 50 * Scale, "docstring")

\* lines 111-117
CommentAdvice(m) ==
    LET comment_density == get(m, "comment_density", 0)
    IN  IF comment_density < 5 * Scale THEN <<"add_comments">>
        ELSE IF comment_density > 30 * Scale THEN <<"too_many_comments">>
        ELSE <<>>

\* an overall message whose bands include their upper ends
OverallAdviceUpperEndsIncluded(m) ==
    LET score == get(m, "score", 0)
    IN  IF score <= 50 * Scale THEN <<"serious_improvement">>
        ELSE IF score <= 70 * Scale THEN <<"room_to_improve">>
        ELSE IF score <= 85 * Scale THEN <<"good_code">>
        ELSE <<"excellent_code">>

\* lines 120-130
OverallAdvice(m) ==
    LET score == get(m, "score", 0)
    IN  IF score < 50 * Scale THEN <<"serious_improvement">>
        ELSE IF score < 70 * Scale THEN <<"room_to_improve">>
        ELSE IF score < 85 * Scale THEN <<"good_code">>
        ELSE <<"excellent_code">>

\* generate_recommendations(metrics): the list returned
generate_recommendations(m) ==
    Pep8Advice(m) \o ComplexityAdvice(m) \o DocstringAdvice(m)
        \o CommentAdvice(m) \o OverallAdvice(m)

\* a key that may be missing: <<>>, or <<v>> for the value v
Optional(S) == {<<>>} \cup {<<v>> : v \in S}

\* the dict of the keys that are there
Dict(g) == [k \in {x \in DOMAIN g : g[x] # <<>>} |-> g[k][1]]

\* the metrics mappings generate_recommendations is called with
AdviceInputs ==
    {Dict(g) : g \in
        [score : Optional({0, R(49, 99000), R(50, 0), R(69, 99000), R(70, 0),
                           R(84, 99000), R(85, 0), R(100, 0)}),
         pep8_errors : Optional({0, 5, 6, 100}),
         max_complexity : Optional({10, 11}),
         docstring_coverage : Optional({R(49, 99000), R(50, 0)}),
         comment_density : Optional({R(4, 99000), R(5, 0), R(30, 0), R(30, 1000)})]}

(***************************************************************************)
(* SpecAdvice: calls of generate_recommendations                           *)
(***************************************************************************)
InitAdvice ==
    /\ ReportIdle
    /\ FileIdle
    /\ ScoreIdle
    /\ PureIdle

\* recommendations = ReportGenerator.generate_recommendations(m)
GenerateRecommendations(m) ==
    /\ advice.pc = "idle"
    /\ advice' = [pc |-> "returned", metrics |-> m,
                  recommendations |-> generate_recommendations(m)]
    /\ UNCHANGED <<scoreVars, pureVars, fileVars, report>>

NextAdvice == \E m \in AdviceInputs : GenerateRecommendations(m)

SpecAdvice == InitAdvice /\ [][NextAdvice]_vars

Advised == advice.pc = "returned"

Has(message) ==
    \E i \in 1..Len(advice.recommendations) : advice.recommendations[i] = message

BandMessages ==
    {"serious_improvement", "room_to_improve", "good_code", "excellent_code"}

\* C17: generate_recommendations returns a non-empty list with exactly one
\* message on the overall score, chosen by score < 50, 50 <= score < 70,
\* 70 <= score < 85, score >= 85, a missing score counting as 0; the PEP8
\* recommendation is in the list exactly when pep8_errors > 5
C17_OneBandMessage ==
    Advised =>
        LET score == IF "score" \in DOMAIN advice.metrics
                        THEN advice.metrics.score ELSE 0
        IN  /\ Len(advice.recommendations) > 0
            /\ Cardinality({i \in 1..Len(advice.recommendations) :
                                advice.recommendations[i] \in BandMessages}) = 1
            /\ Has("serious_improvement") <=> score < 50 * Scale
            /\ Has("room_to_improve") <=> (50 * Scale <= score /\ score < 70 * Scale)
            /\ Has("good_code") <=> (70 * Scale <= score /\ score < 85 * Scale)
            /\ Has("excellent_code") <=> score >= 85 * Scale
            /\ Has("PEP8_black") <=>
                  ("pep8_errors" \in DOMAIN advice.metrics
                        /\ advice.metrics.pep8_errors > 5)

\* C17 witness: a mapping without a score and with 6 PEP8 errors got the
\* message for a score under 50 and the PEP8 recommendation
C17_Witness ==
    /\ Advised
    /\ "score" \notin DOMAIN advice.metrics
    /\ "pep8_errors" \in DOMAIN advice.metrics /\ advice.metrics.pep8_errors = 6
    /\ Has("serious_improvement") /\ Has("PEP8_black")

(***************************************************************************)
(* CodeAnalyzer.generate_report(results, output_path), lines 263-330.      *)
(* A file is [path, content]: the content is <<>> for a file that was      *)
(* created and got no byte, <<c>> for a file with the content c.           *)
(***************************************************************************)
MaxResults == 2     \* longest list of results

\* a dict without the key k
Without(d, k) == [x \in DOMAIN d \ {k} |-> d[x]]

\* the record analyze_file returns for a.py in the environment env, as
\* analyze_directory appends it (line 142)
RecordOf(env) == asdict(analyze_file(<<<<"d">>, PyName>>, env).ret[1])

\* a file that was analysed, an empty file that was analysed, and a file
\* whose analysis failed
AnalysedRecord == RecordOf(DirEnvs.documented)
EmptyFileRecord == RecordOf(Valid(<<>>, <<>>, <<>>, R(100, 0)))
FailedRecord == RecordOf(DirEnvs.invalid_syntax)

WellFormedRecords == {AnalysedRecord, EmptyFileRecord, FailedRecord}

\* records that lack fields
MalformedRecords == {Without(AnalysedRecord, "score"), [filename |-> PyName]}

\* the lists generate_report is called with
ResultLists == SeqsUpTo(WellFormedRecords \cup MalformedRecords, MaxResults)

OutputPaths == {<<"o", "u", "t">>}

\* open(path, "w") and the write that follows
WriteOutcomes == {"ok", "OSError"}

File(path, content) == [path |-> path, content |-> content]

\* the values of the key k in the dicts that have it
RECURSIVE Values(_, _)
Values(results, k) ==
    IF results = <<>> THEN <<>>
    ELSE (IF k \in DOMAIN results[1] THEN <<results[1][k]>> ELSE <<>>)
            \o Values(Tail(results), k)

min(xs) == CHOOSE m \in {xs[i] : i \in 1..Len(xs)} : \A i \in 1..Len(xs) : m <= xs[i]

\* sum(xs) / len(xs), and Series.mean() over the values that are there
mean(xs) == sum(xs) \div Len(xs)

\* lines 265-270: the entry, and the return of "" for no results
EnterReport(results, output_path) ==
    IF results = <<>>
        THEN [IdleReport EXCEPT !.pc = "returned", !.output_path = output_path,
                                !.log = <<"no_results">>, !.ret = <<<<>>>>]
        ELSE [IdleReport EXCEPT !.pc = "json", !.results = results,
                                !.output_path = output_path]

json_path(st) == st.output_path \o <<".", "j", "s", "o", "n">>
csv_path(st) == st.output_path \o <<".", "c", "s", "v">>
summary_path(st) == st.output_path \o <<"_", "s", "u", "m", "m", "a", "r", "y", ".", "t", "x", "t">>

\* lines 274-282: the dict handed to json.dump
JsonPayload(results) ==
    [total_files |-> Len(results),
     average_score |-> Round2(mean(Values(results, "score"))),
     files |-> results]

\* lines 271-287: open creates the file, then r["score"] is read from every
\* record before json.dump writes
JsonStep(st, o) ==
    IF o # "ok"
        THEN [st EXCEPT !.pc = "csv", !.log = Append(@, "json_error")]
    ELSE IF \E i \in 1..Len(st.results) : "score" \notin DOMAIN st.results[i]
        THEN [st EXCEPT !.pc = "csv", !.log = Append(@, "json_error"),
                        !.files = @ \cup {File(json_path(st), <<>>)}]
    ELSE [st EXCEPT !.pc = "csv",
                    !.files = @ \cup {File(json_path(st), <<JsonPayload(st.results)>>)}]

\* lines 290-295: the frame has a column for every key of some record
CsvStep(st, o) ==
    IF o = "ok"
        THEN [st EXCEPT !.pc = "summary",
                        !.files = @ \cup
                            {File(csv_path(st),
                                  <<[columns |-> UNION {DOMAIN st.results[i] :
                                                            i \in 1..Len(st.results)},
                                     rows |-> st.results]>>)}]
        ELSE [st EXCEPT !.pc = "summary", !.log = Append(@, "csv_error")]

SummaryColumns ==
    {"score", "avg_complexity", "maintainability_index", "docstring_coverage",
     "comment_density"}

\* lines 299-316
Summary(results) ==
    [total_files |-> Len(results),
     mean_score |-> Round2(mean(Values(results, "score"))),
     max_score |-> Round2(max(Values(results, "score"))),
     min_score |-> Round2(min(Values(results, "score"))),
     mean_complexity |-> Round2(mean(Values(results, "avg_complexity"))),
     mean_maintainability |-> Round2(mean(Values(results, "maintainability_index"))),
     mean_docstring_coverage |-> Round2(mean(Values(results, "docstring_coverage"))),
     mean_comment_density |-> Round2(mean(Values(results, "comment_density")))]

\* lines 297-330: df[column] raises KeyError for a column no record has,
\* before the summary file is opened; then `return json_path`
SummaryStep(st, o) ==
    LET done == [st EXCEPT !.pc = "returned", !.ret = <<json_path(st)>>]
    IN  IF \E k \in SummaryColumns : Values(st.results, k) = <<>>
            THEN [done EXCEPT !.log = Append(@, "summary_error")]
        ELSE IF o # "ok"
            THEN [done EXCEPT !.log = Append(@, "summary_error")]
        ELSE [done EXCEPT !.files = @ \cup
                            {File(summary_path(st), <<Summary(st.results)>>)}]

(***************************************************************************)
(* SpecReport: the records of a batch handed to generate_report and to     *)
(* generate_recommendations                                                *)
(***************************************************************************)
InitReport ==
    /\ ReportIdle
    /\ FileIdle
    /\ ScoreIdle
    /\ PureIdle

ReportOthers == <<scoreVars, pureVars, fileVars, advice>>

\* analyzer.generate_report(results, output_path)
CallGenerateReport ==
    /\ report.pc = "idle"
    /\ \E results \in ResultLists, output_path \in OutputPaths :
          report' = EnterReport(results, output_path)
    /\ UNCHANGED ReportOthers

WriteJson ==
    /\ report.pc = "json"
    /\ \E o \in WriteOutcomes : report' = JsonStep(report, o)
    /\ UNCHANGED ReportOthers

WriteCsv ==
    /\ report.pc = "csv"
    /\ \E o \in WriteOutcomes : report' = CsvStep(report, o)
    /\ UNCHANGED ReportOthers

WriteSummary ==
    /\ report.pc = "summary"
    /\ \E o \in WriteOutcomes : report' = SummaryStep(report, o)
    /\ UNCHANGED ReportOthers

\* the recommendations for a record of the batch
RecommendForRecord == \E m \in WellFormedRecords : GenerateRecommendations(m)

NextReport ==
    \/ CallGenerateReport
    \/ WriteJson
    \/ WriteCsv
    \/ WriteSummary
    \/ RecommendForRecord

SpecReport == InitReport /\ [][NextReport]_vars

Reported == report.pc = "returned"

\* some record of the list lacks the score field
LacksScore(results) == \E i \in 1..Len(results) : "score" \notin DOMAIN results[i]

\* generate_report([], output_path) writes nothing and returns ""
EmptyListReport ==
    (Reported /\ report.results = <<>>) =>
        /\ report.files = {}
        /\ report.ret = <<<<>>>>
        /\ report.log = <<"no_results">>

\* C16: generate_report given an empty list, or a list with a record that
\* lacks the score field, writes no output file and returns; given an empty
\* list it returns the empty string
C16_NoFileForEmptyOrMalformed ==
    (Reported /\ (report.results = <<>> \/ LacksScore(report.results))) =>
        /\ report.files = {}
        /\ report.ret # <<>>
        /\ report.results = <<>> => report.ret = <<<<>>>>

\* every record of the list has every field of CodeMetrics
WellFormed(results) == \A i \in 1..Len(results) : results[i] \in WellFormedRecords

\* the records of the list that are not error records
Analysed(results) == SelectSeq(results, LAMBDA r : ~IsErrorRecord(r))

\* the advice that is read off the zeroed fields of a record
FieldAdvice == {"PEP8_black", "docstring", "add_comments"}

\* C15: a collaborator that receives an error record treats it as "analysis
\* failed for this file": generate_recommendations gives it no advice read
\* off its pep8_errors of 100 and its zeroed fields, and the average score
\* generate_report writes is the average over the files that were analysed
C15_ErrorRecordIsAnalysisFailed ==
    /\ (Advised /\ IsErrorRecord(advice.metrics)) =>
          \A message \in FieldAdvice : ~Has(message)
    /\ (WellFormed(report.results) /\ Analysed(report.results) # <<>>) =>
          \A f \in report.files :
              (f.path = json_path(report) /\ f.content # <<>>) =>
                  f.content[1].average_score
                      = Round2(mean(Values(Analysed(report.results), "score")))

====
